---- MODULE Spec2Model ----
(***************************************************************************)
(* A model of the media-converter library: the MIME allow-list validator,  *)
(* the chunked base64 codec (current and legacy variant), the streaming    *)
(* download with progress reporting and the legacy buffered download.      *)
(*                                                                         *)
(* JavaScript strings are modelled as sequences of one-character strings,  *)
(* so that split, includes, startsWith and atob are computed character by  *)
(* character.  Byte buffers are sequences of numbers in 0..255.            *)
(***************************************************************************)
EXTENDS Integers, Sequences, FiniteSets, TLC

VARIABLES pc, op, args, response, readerOpen, chunks,
          receivedLength, progress, outcome

vars == <<pc, op, args, response, readerOpen, chunks,
          receivedLength, progress, outcome>>

(***************************************************************************)
(* Bounds of the model.                                                    *)
(***************************************************************************)
\* longest mimeType string enumerated for the validator
MaxMimeLen == 3
\* longest allow-list entry enumerated for the validator
MaxAllowedLen == 2
\* longest allow-list enumerated for the validator
MaxAllowed == 2

(***************************************************************************)
(* String primitives of the platform, as the code uses them.               *)
(***************************************************************************)
\* all sequences over S of length at most n
SeqUpTo(S, n) == UNION {[1..k -> S] : k \in 0..n}

\* String.prototype.includes with a one-character needle
includes(s, c) == \E i \in 1..Len(s) : s[i] = c

\* index of the first occurrence of c in s, 0 when there is none (indexOf + 1)
FirstIndex(s, c) ==
  IF includes(s, c) THEN CHOOSE i \in 1..Len(s) : s[i] = c /\ \A j \in 1..(i-1) : s[j] # c
  ELSE 0

\* String.prototype.split with a one-character separator: the sequence of
\* segments between separators (always at least one segment)
RECURSIVE split(_, _)
split(s, c) ==
  LET i == FirstIndex(s, c) IN
  IF i = 0 THEN <<s>>
  ELSE <<SubSeq(s, 1, i - 1)>> \o split(SubSeq(s, i + 1, Len(s)), c)

\* String.prototype.startsWith
startsWith(s, p) == Len(p) <= Len(s) /\ SubSeq(s, 1, Len(p)) = p


(***************************************************************************)
(* The MIME types named in the source, character by character.             *)
(***************************************************************************)
IMAGE_JPEG == <<"i", "m", "a", "g", "e", "/", "j", "p", "e", "g">>
IMAGE_PNG == <<"i", "m", "a", "g", "e", "/", "p", "n", "g">>
IMAGE_GIF == <<"i", "m", "a", "g", "e", "/", "g", "i", "f">>
IMAGE_WEBP == <<"i", "m", "a", "g", "e", "/", "w", "e", "b", "p">>
VIDEO_MP4 == <<"v", "i", "d", "e", "o", "/", "m", "p", "4">>
VIDEO_WEBM == <<"v", "i", "d", "e", "o", "/", "w", "e", "b", "m">>
AUDIO_MPEG == <<"a", "u", "d", "i", "o", "/", "m", "p", "e", "g">>
AUDIO_WAV == <<"a", "u", "d", "i", "o", "/", "w", "a", "v">>
AUDIO_OGG == <<"a", "u", "d", "i", "o", "/", "o", "g", "g">>
APPLICATION_PDF == <<"a", "p", "p", "l", "i", "c", "a", "t", "i", "o", "n", "/", "p", "d", "f">>

\* 'application/octet-stream', the content type urlToFile falls back to
OCTET_STREAM == <<"a", "p", "p", "l", "i", "c", "a", "t", "i", "o", "n", "/", "o", "c", "t", "e", "t", "-", "s", "t", "r", "e", "a", "m">>

\* further content types used as inputs
IMAGE_ANY == <<"i", "m", "a", "g", "e", "/", "*">>
IMAGE == <<"i", "m", "a", "g", "e">>
TEXT_PLAIN == <<"t", "e", "x", "t", "/", "p", "l", "a", "i", "n">>
IMAGE_PNG_UPPER == <<"i", "m", "a", "g", "e", "/", "P", "N", "G">>
TEXT_PLAIN_MIXED == <<"T", "e", "x", "t", "/", "P", "l", "a", "i", "n">>
IMAGE_TAB == <<"i", "m", "a", "g", "e", "/", "\t">>

\* number of 1/(1024*1024) MB units in one MB: file.size / (1024 * 1024).
\* A size ceiling is held in these units (the ceiling k stands for the
\* option value k / (1024*1024) MB, exact in binary floating point), so that
\* fileSizeMB > maxFileSizeMB is the comparison  size in bytes > ceiling.
UNITS_PER_MB == 1024 * 1024

\* MediaConverter.DEFAULT_OPTIONS
DEFAULT_OPTIONS ==
  [ maxFileSizeMB |-> 50 * UNITS_PER_MB,
    validateContent |-> TRUE,
    allowedMimeTypes |-> <<IMAGE_JPEG, IMAGE_PNG, IMAGE_GIF, IMAGE_WEBP,
                           VIDEO_MP4, VIDEO_WEBM, AUDIO_MPEG, AUDIO_WAV,
                           AUDIO_OGG, APPLICATION_PDF>> ]

\* MediaConverter.CHUNK_SIZE
CHUNK_SIZE == 512

\* { ...this.DEFAULT_OPTIONS, ...options }: options is a record holding any
\* subset of the three keys
MergeOptions(options) ==
  [k \in DOMAIN DEFAULT_OPTIONS |->
     IF k \in DOMAIN options THEN options[k] ELSE DEFAULT_OPTIONS[k]]

(***************************************************************************)
(* base64: the platform's atob and the encoder behind readAsDataURL.       *)
(***************************************************************************)
B64Chars ==
  <<"A", "B", "C", "D", "E", "F", "G", "H", "I", "J", "K", "L", "M", "N", "O", "P",
    "Q", "R", "S", "T", "U", "V", "W", "X", "Y", "Z", "a", "b", "c", "d", "e", "f",
    "g", "h", "i", "j", "k", "l", "m", "n", "o", "p", "q", "r", "s", "t", "u", "v",
    "w", "x", "y", "z", "0", "1", "2", "3", "4", "5", "6", "7", "8", "9", "+", "/">>

B64Set == {B64Chars[i] : i \in 1..64}

\* the 6-bit value of a base64 character
B64Value == [c \in B64Set |-> (CHOOSE i \in 1..64 : B64Chars[i] = c) - 1]

AsciiWhitespace == {" ", "\t", "\n", "\f", "\r"}

Min(a, b) == IF a < b THEN a ELSE b

\* atob, step 1 and 2: drop ASCII whitespace; when the length is a multiple
\* of 4, drop one or two trailing "="
AtobStripped(s) ==
  LET d == SelectSeq(s, LAMBDA c : c \notin AsciiWhitespace)
      n == Len(d)
  IN IF n > 0 /\ n % 4 = 0 /\ d[n] = "="
     THEN IF d[n - 1] = "=" THEN SubSeq(d, 1, n - 2) ELSE SubSeq(d, 1, n - 1)
     ELSE d

\* atob succeeds: the stripped length is not 1 modulo 4 and every character
\* left is in the base64 alphabet; otherwise it throws InvalidCharacterError
AtobOk(s) ==
  LET d == AtobStripped(s) IN
  /\ Len(d) % 4 # 1
  /\ \A i \in 1..Len(d) : d[i] \in B64Set

\* atob on decodable text: the binary string, one char code (0..255) per
\* byte; bits left over after the last whole byte are discarded
atob(s) ==
  LET d == AtobStripped(s)
      v(i) == B64Value[d[i]]
  IN [k \in 1..((Len(d) * 6) \div 8) |->
        LET bit == 8 * (k - 1)
            c == (bit \div 6) + 1
            r == bit % 6
        IN CASE r = 0 -> v(c) * 4 + (v(c + 1) \div 16)
             [] r = 2 -> (v(c) % 16) * 16 + (v(c + 1) \div 4)
             [] OTHER -> (v(c) % 4) * 64 + v(c + 1)]

\* base64 of a byte buffer, with "=" padding
Base64Encode(bytes) ==
  LET n == Len(bytes)
      b(i) == IF i <= n THEN bytes[i] ELSE 0
  IN [j \in 1..(4 * ((n + 2) \div 3)) |->
        LET g == (j - 1) \div 4
            p == (j - 1) % 4
            b0 == b(3 * g + 1)
            b1 == b(3 * g + 2)
            b2 == b(3 * g + 3)
        IN CASE p = 0 -> B64Chars[(b0 \div 4) + 1]
             [] p = 1 -> B64Chars[(b0 % 4) * 16 + (b1 \div 16) + 1]
             [] p = 2 -> IF 3 * g + 2 > n THEN "="
                         ELSE B64Chars[(b1 % 16) * 4 + (b2 \div 64) + 1]
             [] OTHER -> IF 3 * g + 3 > n THEN "="
                         ELSE B64Chars[(b2 % 64) + 1]]

\* FileReader.readAsDataURL: "data:" <type> ";base64," <payload>
readAsDataURL(file) ==
  <<"d", "a", "t", "a", ":">> \o file.type
    \o <<";", "b", "a", "s", "e", "6", "4", ",">> \o Base64Encode(file.bytes)

(***************************************************************************)
(* MediaConverter.isValidMimeType                                          *)
(***************************************************************************)
\* a slip: only the exact comparison is kept
isValidMimeType_ExactOnly(mimeType, allowedTypes) ==
  \E k \in 1..Len(allowedTypes) : mimeType = allowedTypes[k]

\* a slip: the category is compared without the "/" that ends it
isValidMimeType_NoSlash(mimeType, allowedTypes) ==
  \E k \in 1..Len(allowedTypes) :
    \/ mimeType = allowedTypes[k]
    \/ startsWith(mimeType, split(allowedTypes[k], "/")[1])

isValidMimeType(mimeType, allowedTypes) ==
  \E k \in 1..Len(allowedTypes) :
    \/ mimeType = allowedTypes[k]
    \/ startsWith(mimeType, split(allowedTypes[k], "/")[1] \o <<"/">>)

(***************************************************************************)
(* Results and failures.  A message is the sequence of the parts the code  *)
(* concatenates, so that its first part is the text it begins with.        *)
(***************************************************************************)
NoValue == [none |-> TRUE]
Pending == [kind |-> "pending", message |-> <<>>, value |-> NoValue]
Returned(v) == [kind |-> "ok", message |-> <<>>, value |-> v]
Thrown(msg) == [kind |-> "error", message |-> msg, value |-> NoValue]

UpperCase ==
  <<"A", "B", "C", "D", "E", "F", "G", "H", "I", "J", "K", "L", "M",
    "N", "O", "P", "Q", "R", "S", "T", "U", "V", "W", "X", "Y", "Z">>
LowerCase ==
  <<"a", "b", "c", "d", "e", "f", "g", "h", "i", "j", "k", "l", "m",
    "n", "o", "p", "q", "r", "s", "t", "u", "v", "w", "x", "y", "z">>

\* ASCII lower-casing of one character
AsciiLower(c) ==
  IF \E k \in DOMAIN UpperCase : UpperCase[k] = c
  THEN LowerCase[CHOOSE k \in DOMAIN UpperCase : UpperCase[k] = c]
  ELSE c

\* the characters U+0020 to U+007E, but for the grave accent U+0060, which
\* no string of this module holds
PrintableAscii ==
  {UpperCase[k] : k \in DOMAIN UpperCase}
    \cup {LowerCase[k] : k \in DOMAIN LowerCase}
    \cup {"0", "1", "2", "3", "4", "5", "6", "7", "8", "9"}
    \cup {" ", "!", "\"", "#", "$", "%", "&", "'", "(", ")", "*", "+", ",",
          "-", ".", "/", ":", ";", "<", "=", ">", "?", "@", "[", "\\", "]",
          "^", "_", "{", "|", "}", "~"}

\* the type a Blob or File takes from the type option of its constructor:
\* the empty string when a character lies outside U+0020 to U+007E, the
\* ASCII lower-cased option otherwise
BlobType(type) ==
  IF \E i \in 1..Len(type) : type[i] \notin PrintableAscii THEN <<>>
  ELSE [i \in 1..Len(type) |-> AsciiLower(type[i])]

\* new File([new Blob(parts, { type })], name, { type })
NewFile(bytes, name, type) ==
  [bytes |-> bytes, name |-> name, type |-> BlobType(type)]

\* settings.maxFileSizeMB && fileSizeMB > settings.maxFileSizeMB, with
\* fileSizeMB = size / (1024 * 1024) and both sides in 1/(1024*1024) MB units
SizeRejected(size, maxFileSizeMB) ==
  maxFileSizeMB # 0 /\ size > maxFileSizeMB

(***************************************************************************)
(* MediaConverter.base64ToFile, current variant                            *)
(***************************************************************************)
\* base64String.includes(',') ? base64String.split(',')[1] : base64String
ExtractBase64Data(base64String) ==
  IF includes(base64String, ",") THEN split(base64String, ",")[2]
  ELSE base64String

\* byteCharacters.slice(from, to) with 0-based from and exclusive to
slice(s, from, to) == SubSeq(s, from + 1, Min(to, Len(s)))

\* the chunk loop: one Uint8Array of char codes per CHUNK_SIZE characters
RECURSIVE ByteArrays(_, _)
ByteArrays(byteCharacters, offset) ==
  IF offset < Len(byteCharacters)
  THEN LET sl == slice(byteCharacters, offset, offset + CHUNK_SIZE)
       IN <<[i \in 1..Len(sl) |-> sl[i] % 256]>>
            \o ByteArrays(byteCharacters, offset + CHUNK_SIZE)
  ELSE <<>>

\* new Blob(parts): the parts' bytes in order
RECURSIVE BlobBytes(_)
BlobBytes(parts) ==
  IF parts = <<>> THEN <<>> ELSE Head(parts) \o BlobBytes(Tail(parts))

\* the message of the DOMException (name InvalidCharacterError, an instance
\* of Error) that atob throws on text it cannot decode.  White space
\* apart, one or two "=" that end the text are set aside first, whatever
\* the length; when what is left is in the alphabet and has a length of 1
\* modulo 4 the message tells of a wrong encoding, and in every other case
\* (a character outside the alphabet, padding out of place) of an invalid
\* character.
AtobError(s) ==
  LET d == SelectSeq(s, LAMBDA c : c \notin AsciiWhitespace)
      n == Len(d)
      pad == IF n >= 1 /\ d[n] = "="
             THEN IF n >= 2 /\ d[n - 1] = "=" THEN 2 ELSE 1
             ELSE 0
      body == SubSeq(d, 1, n - pad)
  IN IF (\A i \in 1..Len(body) : body[i] \in B64Set) /\ Len(body) % 4 = 1
     THEN <<"The string to be decoded is not correctly encoded.">>
     ELSE <<"Invalid character">>

\* the body of the try block of base64ToFile
Base64ToFileTry(base64String, filename, mimeType, settings) ==
  LET base64Data == ExtractBase64Data(base64String) IN
  IF ~AtobOk(base64Data) THEN Thrown(AtobError(base64Data))
  ELSE LET blob == BlobBytes(ByteArrays(atob(base64Data), 0)) IN
       IF SizeRejected(Len(blob), settings.maxFileSizeMB)
       THEN Thrown(<<"Generated file exceeds maximum size limit of ",
                     ToString(settings.maxFileSizeMB), "MB">>)
       ELSE Returned(NewFile(blob, filename, mimeType))

base64ToFile(base64String, filename, mimeType, options) ==
  LET settings == MergeOptions(options) IN
  IF settings.validateContent
       /\ ~isValidMimeType(mimeType, settings.allowedMimeTypes)
  THEN Thrown(<<"Unsupported MIME type: ", mimeType>>)
  ELSE LET r == Base64ToFileTry(base64String, filename, mimeType, settings)
       IN IF r.kind = "error"
          THEN Thrown(<<"Base64 conversion failed: ">> \o r.message)
          ELSE r

(***************************************************************************)
(* MediaConverter.base64ToFile, legacy variant (src/mediaConverter.ts)     *)
(***************************************************************************)
\* base64String.split(',')[1] || base64String
LegacyExtractBase64Data(base64String) ==
  LET parts == split(base64String, ",") IN
  IF Len(parts) >= 2 /\ parts[2] # <<>> THEN parts[2] ELSE base64String

RECURSIVE LegacyByteArrays(_, _)
LegacyByteArrays(byteCharacters, offset) ==
  IF offset < Len(byteCharacters)
  THEN LET sl == slice(byteCharacters, offset, offset + 512)
       IN <<[i \in 1..Len(sl) |-> sl[i] % 256]>>
            \o LegacyByteArrays(byteCharacters, offset + 512)
  ELSE <<>>

LegacyBase64ToFile(base64String, filename, mimeType) ==
  LET base64Data == LegacyExtractBase64Data(base64String) IN
  IF ~AtobOk(base64Data) THEN Thrown(AtobError(base64Data))
  ELSE Returned(NewFile(BlobBytes(LegacyByteArrays(atob(base64Data), 0)),
                        filename, mimeType))

(***************************************************************************)
(* MediaConverter.fileToBase64: the checks made before the read starts     *)
(***************************************************************************)
\* Pending when both checks pass and the FileReader is started
FileToBase64Checks(file, options) ==
  LET settings == MergeOptions(options) IN
  IF settings.validateContent
       /\ ~isValidMimeType(file.type, settings.allowedMimeTypes)
  THEN Thrown(<<"Unsupported file type: ", file.type, ". Allowed types: ",
                settings.allowedMimeTypes>>)
  ELSE IF SizeRejected(Len(file.bytes), settings.maxFileSizeMB)
  THEN Thrown(<<"File size (", ToString(Len(file.bytes)),
                "MB) exceeds maximum allowed size of ",
                ToString(settings.maxFileSizeMB), "MB">>)
  ELSE Pending

\* reader.onload: the ConversionResult
FileToBase64Result(file) ==
  [data |-> readAsDataURL(file), mimeType |-> file.type,
   filename |-> file.name, sizeInMB |-> Len(file.bytes)]

(***************************************************************************)
(* MediaConverter.urlToFile: pure parts                                    *)
(***************************************************************************)
\* response.headers.get(name): null is modelled as the empty string, which
\* the code treats alike (both are falsy operands of ||)
HeadersGet(headers, name) ==
  IF name \in DOMAIN headers THEN headers[name] ELSE <<>>

\* what fetch resolves to; response.ok is the platform's 200..299 test
Response(status, headers, hasBody) ==
  [status |-> status, ok |-> (status >= 200 /\ status <= 299),
   headers |-> headers, hasBody |-> hasBody]

NoResponse == Response(0, <<>>, FALSE)

Digits == <<"0", "1", "2", "3", "4", "5", "6", "7", "8", "9">>

DigitValue(c) == (CHOOSE d \in 1..10 : Digits[d] = c) - 1

RECURSIVE DecimalValue(_)
DecimalValue(s) ==
  IF s = <<>> THEN 0
  ELSE 10 * DecimalValue(SubSeq(s, 1, Len(s) - 1)) + DigitValue(s[Len(s)])

\* DecimalDigits of the numeric-string grammar, possibly empty
IsDecimalDigits(s) ==
  \A i \in 1..Len(s) : \E d \in 1..10 : Digits[d] = s[i]

HexDigits == Digits \o <<"a", "b", "c", "d", "e", "f">>

\* the value of a digit of a radix literal, in either case; 16 when the
\* character is no hexadecimal digit
RadixDigitValue(c) ==
  IF \E d \in DOMAIN HexDigits : HexDigits[d] = AsciiLower(c)
  THEN (CHOOSE d \in DOMAIN HexDigits : HexDigits[d] = AsciiLower(c)) - 1
  ELSE 16

RECURSIVE RadixValue(_, _)
RadixValue(s, base) ==
  IF s = <<>> THEN 0
  ELSE base * RadixValue(SubSeq(s, 1, Len(s) - 1), base)
         + RadixDigitValue(s[Len(s)])

\* the radix a 0x, 0o or 0b prefix announces, 0 when s has no such prefix
RadixOf(s) ==
  IF Len(s) < 2 \/ s[1] # "0" THEN 0
  ELSE CASE s[2] \in {"x", "X"} -> 16
         [] s[2] \in {"o", "O"} -> 8
         [] s[2] \in {"b", "B"} -> 2
         [] OTHER -> 0

\* NonDecimalIntegerLiteral: a prefix and one or more digits of its radix
IsRadixLiteral(s) ==
  /\ RadixOf(s) # 0
  /\ Len(s) >= 3
  /\ \A i \in 3..Len(s) : RadixDigitValue(s[i]) < RadixOf(s)

RECURSIVE Pow10(_)
Pow10(n) == IF n = 0 THEN 1 ELSE 10 * Pow10(n - 1)

\* a JavaScript number: NaN, an infinity (num is its sign), or the rational
\* num / den with den > 0.  -0 is held as 0; a literal between the two ends
\* of the range of doubles is held exactly, not as the double nearest to it
NaN == [nan |-> TRUE, inf |-> FALSE, num |-> 0, den |-> 1]
Finite(num, den) == [nan |-> FALSE, inf |-> FALSE, num |-> num, den |-> den]
Infinite(sign) == [nan |-> FALSE, inf |-> TRUE, num |-> sign, den |-> 1]

INFINITY == <<"I", "n", "f", "i", "n", "i", "t", "y">>

\* StrWhiteSpaceChar: TAB, LF, VT, FF, CR, space, U+00A0, U+FEFF and U+1680.
\* The other space separators (U+2000 to U+200A, U+202F, U+205F, U+3000)
\* and U+2028, U+2029 cannot be written in a string of this module.
StrWhiteSpace == AsciiWhitespace \cup {"", " ", "﻿", " "}

\* StrWhiteSpace removed from both ends
Trim(s) ==
  LET kept == {i \in 1..Len(s) : s[i] \notin StrWhiteSpace} IN
  IF kept = {} THEN <<>>
  ELSE SubSeq(s, CHOOSE i \in kept : \A k \in kept : i <= k,
                 CHOOSE i \in kept : \A k \in kept : k <= i)

Max(a, b) == IF a > b THEN a ELSE b

\* the digit at place i of a digit string continued by zeros
DigitAt(s, i) == IF i <= Len(s) THEN DigitValue(s[i]) ELSE 0

\* 0.a < 0.b for digit strings a and b
FractionLess(a, b) ==
  \E i \in 1..Max(Len(a), Len(b)) :
    /\ DigitAt(a, i) < DigitAt(b, i)
    /\ \A k \in 1..(i - 1) : DigitAt(a, k) = DigitAt(b, k)

\* the digits of 2^1024 - 2^970, half way between the largest double and
\* 2^1024: a magnitude of at least 0.<these digits> * 10^309 is Infinity
OVERFLOW_DIGITS ==
  <<"1", "7", "9", "7", "6", "9", "3", "1", "3", "4", "8", "6", "2", "3", "1", "5",
    "8", "0", "7", "9", "3", "7", "2", "8", "9", "7", "1", "4", "0", "5", "3", "0",
    "3", "4", "1", "5", "0", "7", "9", "9", "3", "4", "1", "3", "2", "7", "1", "0",
    "0", "3", "7", "8", "2", "6", "9", "3", "6", "1", "7", "3", "7", "7", "8", "9",
    "8", "0", "4", "4", "4", "9", "6", "8", "2", "9", "2", "7", "6", "4", "7", "5",
    "0", "9", "4", "6", "6", "4", "9", "0", "1", "7", "9", "7", "7", "5", "8", "7",
    "2", "0", "7", "0", "9", "6", "3", "3", "0", "2", "8", "6", "4", "1", "6", "6",
    "9", "2", "8", "8", "7", "9", "1", "0", "9", "4", "6", "5", "5", "5", "5", "4",
    "7", "8", "5", "1", "9", "4", "0", "4", "0", "2", "6", "3", "0", "6", "5", "7",
    "4", "8", "8", "6", "7", "1", "5", "0", "5", "8", "2", "0", "6", "8", "1", "9",
    "0", "8", "9", "0", "2", "0", "0", "0", "7", "0", "8", "3", "8", "3", "6", "7",
    "6", "2", "7", "3", "8", "5", "4", "8", "4", "5", "8", "1", "7", "7", "1", "1",
    "5", "3", "1", "7", "6", "4", "4", "7", "5", "7", "3", "0", "2", "7", "0", "0",
    "6", "9", "8", "5", "5", "5", "7", "1", "3", "6", "6", "9", "5", "9", "6", "2",
    "2", "8", "4", "2", "9", "1", "4", "8", "1", "9", "8", "6", "0", "8", "3", "4",
    "9", "3", "6", "4", "7", "5", "2", "9", "2", "7", "1", "9", "0", "7", "4", "1",
    "6", "8", "4", "4", "4", "3", "6", "5", "5", "1", "0", "7", "0", "4", "3", "4",
    "2", "7", "1", "1", "5", "5", "9", "6", "9", "9", "5", "0", "8", "0", "9", "3",
    "0", "4", "2", "8", "8", "0", "1", "7", "7", "9", "0", "4", "1", "7", "4", "4",
    "9", "7", "7", "9", "2">>

\* the digits of 5^1075; 2^-1075 = 0.<these digits> * 10^-323 is half the
\* smallest double: a magnitude of at most that is 0
UNDERFLOW_DIGITS ==
  <<"2", "4", "7", "0", "3", "2", "8", "2", "2", "9", "2", "0", "6", "2", "3", "2",
    "7", "2", "0", "8", "8", "2", "8", "4", "3", "9", "6", "4", "3", "4", "1", "1",
    "0", "6", "8", "6", "1", "8", "2", "5", "2", "9", "9", "0", "1", "3", "0", "7",
    "1", "6", "2", "3", "8", "2", "2", "1", "2", "7", "9", "2", "8", "4", "1", "2",
    "5", "0", "3", "3", "7", "7", "5", "3", "6", "3", "5", "1", "0", "4", "3", "7",
    "5", "9", "3", "2", "6", "4", "9", "9", "1", "8", "1", "8", "0", "8", "1", "7",
    "9", "9", "6", "1", "8", "9", "8", "9", "8", "2", "8", "2", "3", "4", "7", "7",
    "2", "2", "8", "5", "8", "8", "6", "5", "4", "6", "3", "3", "2", "8", "3", "5",
    "5", "1", "7", "7", "9", "6", "9", "8", "9", "8", "1", "9", "9", "3", "8", "7",
    "3", "9", "8", "0", "0", "5", "3", "9", "0", "9", "3", "9", "0", "6", "3", "1",
    "5", "0", "3", "5", "6", "5", "9", "5", "1", "5", "5", "7", "0", "2", "2", "6",
    "3", "9", "2", "2", "9", "0", "8", "5", "8", "3", "9", "2", "4", "4", "9", "1",
    "0", "5", "1", "8", "4", "4", "3", "5", "9", "3", "1", "8", "0", "2", "8", "4",
    "9", "9", "3", "6", "5", "3", "6", "1", "5", "2", "5", "0", "0", "3", "1", "9",
    "3", "7", "0", "4", "5", "7", "6", "7", "8", "2", "4", "9", "2", "1", "9", "3",
    "6", "5", "6", "2", "3", "6", "6", "9", "8", "6", "3", "6", "5", "8", "4", "8",
    "0", "7", "5", "7", "0", "0", "1", "5", "8", "5", "7", "6", "9", "2", "6", "9",
    "9", "0", "3", "7", "0", "6", "3", "1", "1", "9", "2", "8", "2", "7", "9", "5",
    "5", "8", "5", "5", "1", "3", "3", "2", "9", "2", "7", "8", "3", "4", "3", "3",
    "8", "4", "0", "9", "3", "5", "1", "9", "7", "8", "0", "1", "5", "5", "3", "1",
    "2", "4", "6", "5", "9", "7", "2", "6", "3", "5", "7", "9", "5", "7", "4", "6",
    "2", "2", "7", "6", "6", "4", "6", "5", "2", "7", "2", "8", "2", "7", "2", "2",
    "0", "0", "5", "6", "3", "7", "4", "0", "0", "6", "4", "8", "5", "4", "9", "9",
    "9", "7", "7", "0", "9", "6", "5", "9", "9", "4", "7", "0", "4", "5", "4", "0",
    "2", "0", "8", "2", "8", "1", "6", "6", "2", "2", "6", "2", "3", "7", "8", "5",
    "7", "3", "9", "3", "4", "5", "0", "7", "3", "6", "3", "3", "9", "0", "0", "7",
    "9", "6", "7", "7", "6", "1", "9", "3", "0", "5", "7", "7", "5", "0", "6", "7",
    "4", "0", "1", "7", "6", "3", "2", "4", "6", "7", "3", "6", "0", "0", "9", "6",
    "8", "9", "5", "1", "3", "4", "0", "5", "3", "5", "5", "3", "7", "4", "5", "8",
    "5", "1", "6", "6", "6", "1", "1", "3", "4", "2", "2", "3", "7", "6", "6", "6",
    "7", "8", "6", "0", "4", "1", "6", "2", "1", "5", "9", "6", "8", "0", "4", "6",
    "1", "9", "1", "4", "4", "6", "7", "2", "9", "1", "8", "4", "0", "3", "0", "0",
    "5", "3", "0", "0", "5", "7", "5", "3", "0", "8", "4", "9", "0", "4", "8", "7",
    "6", "5", "3", "9", "1", "7", "1", "1", "3", "8", "6", "5", "9", "1", "6", "4",
    "6", "2", "3", "9", "5", "2", "4", "9", "1", "2", "6", "2", "3", "6", "5", "3",
    "8", "8", "1", "8", "7", "9", "6", "3", "6", "2", "3", "9", "3", "7", "3", "2",
    "8", "0", "4", "2", "3", "8", "9", "1", "0", "1", "8", "6", "7", "2", "3", "4",
    "8", "4", "9", "7", "6", "6", "8", "2", "3", "5", "0", "8", "9", "8", "6", "3",
    "3", "8", "8", "5", "8", "7", "9", "2", "5", "6", "2", "8", "3", "0", "2", "7",
    "5", "5", "9", "9", "5", "6", "5", "7", "5", "2", "4", "4", "5", "5", "5", "0",
    "7", "2", "5", "5", "1", "8", "9", "3", "1", "3", "6", "9", "0", "8", "3", "6",
    "2", "5", "4", "7", "7", "9", "1", "8", "6", "9", "4", "8", "6", "6", "7", "9",
    "9", "4", "9", "6", "8", "3", "2", "4", "0", "4", "9", "7", "0", "5", "8", "2",
    "1", "0", "2", "8", "5", "1", "3", "1", "8", "5", "4", "5", "1", "3", "9", "6",
    "2", "1", "3", "8", "3", "7", "7", "2", "2", "8", "2", "6", "1", "4", "5", "4",
    "3", "7", "6", "9", "3", "4", "1", "2", "5", "3", "2", "0", "9", "8", "5", "9",
    "1", "3", "2", "7", "6", "6", "7", "2", "3", "6", "3", "2", "8", "1", "2", "5">>

\* a magnitude 0.<sig> * 10^exp with sig[1] # "0" rounds to Infinity
Overflows(sig, exp) ==
  exp > 309 \/ (exp = 309 /\ ~FractionLess(sig, OVERFLOW_DIGITS))

\* a magnitude 0.<sig> * 10^exp with sig[1] # "0" rounds to 0
Underflows(sig, exp) ==
  exp < 0 - 323 \/ (exp = 0 - 323 /\ ~FractionLess(UNDERFLOW_DIGITS, sig))

\* a digit string without its leading zeros
RECURSIVE StripZeros(_)
StripZeros(s) ==
  IF s # <<>> /\ s[1] = "0" THEN StripZeros(Tail(s)) ELSE s

\* StrUnsignedDecimalLiteral other than Infinity:
\*   digits [. [digits]] [exponent]  or  . digits [exponent]
\* with exponent = (e | E) [+ | -] digits.  An exponent of ten digits or
\* more counts as 10^9, which puts every literal out of the range of doubles.
UnsignedDecimal(body) ==
  LET eAt == IF \E i \in 1..Len(body) : body[i] \in {"e", "E"}
             THEN CHOOSE i \in 1..Len(body) :
                    /\ body[i] \in {"e", "E"}
                    /\ \A k \in 1..(i - 1) : body[k] \notin {"e", "E"}
             ELSE 0
      mantissa == IF eAt = 0 THEN body ELSE SubSeq(body, 1, eAt - 1)
      exponent == IF eAt = 0 THEN <<>> ELSE SubSeq(body, eAt + 1, Len(body))
      expSigned == exponent # <<>> /\ exponent[1] \in {"+", "-"}
      expDigits == IF expSigned THEN Tail(exponent) ELSE exponent
      dot == FirstIndex(mantissa, ".")
      intPart == IF dot = 0 THEN mantissa ELSE SubSeq(mantissa, 1, dot - 1)
      fracPart == IF dot = 0 THEN <<>>
                  ELSE SubSeq(mantissa, dot + 1, Len(mantissa))
      expSize == IF Len(StripZeros(expDigits)) > 9 THEN 1000000000
                 ELSE DecimalValue(StripZeros(expDigits))
      e == IF expSigned /\ exponent[1] = "-" THEN 0 - expSize ELSE expSize
      sig == StripZeros(intPart \o fracPart)
      \* the magnitude is 0.<sig> * 10^sigExp
      sigExp == Len(sig) - Len(fracPart) + e
      shift == e - Len(fracPart)
  IN IF /\ IsDecimalDigits(intPart) /\ IsDecimalDigits(fracPart)
        /\ (intPart # <<>> \/ fracPart # <<>>)
        /\ (eAt = 0 \/ (expDigits # <<>> /\ IsDecimalDigits(expDigits)))
     THEN IF sig = <<>> THEN Finite(0, 1)
          ELSE IF Overflows(sig, sigExp) THEN Infinite(1)
          ELSE IF Underflows(sig, sigExp) THEN Finite(0, 1)
          ELSE IF shift >= 0 THEN Finite(DecimalValue(sig) * Pow10(shift), 1)
          ELSE Finite(DecimalValue(sig), Pow10(0 - shift))
     ELSE NaN

\* unary plus on a string (StringToNumber): white space is trimmed, the
\* empty string is 0, a radix literal or an optionally signed decimal
\* literal or Infinity is its value, and anything else is NaN
ToNumber(s) ==
  LET t == Trim(s) IN
  IF t = <<>> THEN Finite(0, 1)
  ELSE IF IsRadixLiteral(t)
  THEN Finite(RadixValue(SubSeq(t, 3, Len(t)), RadixOf(t)), 1)
  ELSE LET signed == t[1] \in {"+", "-"}
           sign == IF t[1] = "-" THEN 0 - 1 ELSE 1
           body == IF signed THEN Tail(t) ELSE t
           u == UnsignedDecimal(body)
       IN IF body = INFINITY THEN Infinite(sign)
          ELSE IF u.nan THEN NaN
          ELSE IF u.inf THEN Infinite(sign)
          ELSE Finite(sign * u.num, u.den)

\* +(response.headers.get('content-length') || '0')
ContentLength(headers) ==
  LET h == HeadersGet(headers, "content-length") IN
  ToNumber(IF h = <<>> THEN <<"0">> ELSE h)

\* truthiness of a number: neither NaN nor 0
Truthy(n) == ~n.nan /\ (n.inf \/ n.num # 0)

\* response.headers.get('content-type') || 'application/octet-stream'
ContentType(headers) ==
  LET h == HeadersGet(headers, "content-type") IN
  IF h = <<>> THEN OCTET_STREAM ELSE h

DOWNLOADED_FILE ==
  <<"d", "o", "w", "n", "l", "o", "a", "d", "e", "d", "-", "f", "i", "l", "e">>

\* a url is [absolute, pathname]: new URL(url) throws unless it is absolute
extractFilenameFromUrl(url) ==
  IF ~url.absolute THEN DOWNLOADED_FILE
  ELSE LET parts == split(url.pathname, "/")
           filename == parts[Len(parts)]
       IN IF filename = <<>> THEN DOWNLOADED_FILE ELSE filename

\* (receivedLength / contentLength) * 100 for a contentLength that is
\* neither NaN nor 0, kept as a fraction num / den with den > 0: dividing
\* by an infinity gives 0, dividing by a negative length a negative value
ProgressValue(received, contentLength) ==
  IF contentLength.inf THEN [num |-> 0, den |-> 1]
  ELSE IF contentLength.num < 0
  THEN [num |-> 0 - (received * 100 * contentLength.den),
        den |-> 0 - contentLength.num]
  ELSE [num |-> received * 100 * contentLength.den,
        den |-> contentLength.num]

\* !response.ok
StatusRejected(r) == ~r.ok

\* a slip: progress is reported whenever a callback is given
ReportsProgress_Always(onProgress, contentLength) == onProgress

\* onProgress && contentLength
ReportsProgress(onProgress, contentLength) ==
  onProgress /\ Truthy(contentLength)

\* after the stream is exhausted: the blob, the size check, the File
UrlToFileFinish(url, filename, options, contentType, parts) ==
  LET blob == BlobBytes(parts)
      finalFilename ==
        IF filename # <<>> THEN filename ELSE extractFilenameFromUrl(url)
      maxFileSizeMB == MergeOptions(options).maxFileSizeMB
  IN IF SizeRejected(Len(blob), maxFileSizeMB)
     THEN Thrown(<<"Downloaded file exceeds maximum size limit of ",
                   ToString(maxFileSizeMB), "MB">>)
     ELSE Returned(NewFile(blob, finalFilename, contentType))

\* catch (error): error instanceof Error or not
UrlCatch(message, isError) ==
  IF isError THEN Thrown(<<"URL conversion failed: ">> \o message)
  ELSE Thrown(<<"URL conversion failed with unknown error">>)

(***************************************************************************)
(* MediaConverter.urlToFile, legacy variant (src/mediaConverter.ts)        *)
(***************************************************************************)
\* the origin of the absolute urls
ORIGIN == <<"h", "t", "t", "p", "s", ":", "/", "/", "h">>

\* the url as the string the caller passes
UrlString(url) ==
  IF url.absolute THEN ORIGIN \o url.pathname ELSE url.pathname

\* filename || url.split('/').pop() || 'downloaded-file'
LegacyFinalFilename(url, filename) ==
  LET parts == split(UrlString(url), "/")
      last == parts[Len(parts)]
  IN IF filename # <<>> THEN filename
     ELSE IF last # <<>> THEN last
     ELSE DOWNLOADED_FILE

\* new File([blob], finalFilename, { type: mimeType }) once the body is read
LegacyUrlToFileFinish(url, filename, headers, parts) ==
  Returned(NewFile(BlobBytes(parts), LegacyFinalFilename(url, filename),
                   ContentType(headers)))

(***************************************************************************)
(* Inputs                                                                  *)
(***************************************************************************)
\* longest file given to fileToBase64 in Spec
MaxFileLen == 2
\* largest size ceiling held in 1/(1024*1024) MB units, besides the default
MaxCeiling == 2
\* most chunks a download stream delivers
MaxChunks == 3
\* longest chunk a download stream delivers
MaxChunkLen == 2
\* longest buffer enumerated byte by byte for the round trip
MaxBufLen == 3
\* longest text enumerated character by character for the decoder
MaxTextLen == 4

\* a buffer of n bytes whose values vary with the position
Pattern(n) == [i \in 1..n |-> (i * 7) % 256]

\* caller-supplied options: any subset of the three keys
CeilingOptions == {<<>>} \cup {[maxFileSizeMB |-> k] : k \in 0..MaxCeiling}
ContentOptions ==
  {<<>>, [validateContent |-> FALSE], [allowedMimeTypes |-> <<TEXT_PLAIN>>]}
OptionSets == {a @@ b : a \in CeilingOptions, b \in ContentOptions}

FileName == <<"f">>

Files ==
  {[name |-> FileName, type |-> ty, bytes |-> Pattern(n)] :
     ty \in {IMAGE_PNG, TEXT_PLAIN}, n \in 0..MaxFileLen}

HELLO_B64 == <<"a", "G", "V", "s", "b", "G", "8", "=">>
HELLO == <<104, 101, 108, 108, 111>>
DataHeader(type) ==
  <<"d", "a", "t", "a", ":">> \o type
    \o <<";", "b", "a", "s", "e", "6", "4", ",">>

\* texts given to base64ToFile in Spec: with and without header, empty
\* payload, undecodable payload
Texts ==
  {HELLO_B64, DataHeader(IMAGE_PNG) \o HELLO_B64, DataHeader(IMAGE_PNG),
   <<"A", "Q", "=", "=">>, <<"x", ",", "A", "Q", "=", "=">>,
   <<"!", "!">>, <<"x", ",", "A">>}

Urls ==
  {[absolute |-> TRUE, pathname |-> <<"/", "a">>],
   [absolute |-> TRUE, pathname |-> <<"/">>],
   [absolute |-> FALSE, pathname |-> <<"a">>]}

\* (url, filename) pairs given to urlToFile
UrlCalls ==
  {<<u, <<>> >> : u \in Urls}
    \cup {<<[absolute |-> TRUE, pathname |-> <<"/", "a">>], FileName>>}

\* content-length header values: absent; zero; not a number; positive
\* integers; and the other forms unary plus takes as numbers (signed,
\* fractional, with an exponent, with a radix prefix, infinite)
LengthValues ==
  {<<"0">>, <<"-", "0">>, <<"x">>, <<"1", "e">>, <<"2">>, <<"3">>,
   <<"1", "0">>, <<"-", "1">>, <<"1", ".", "5">>, <<".", "5">>,
   <<"1", "e", "1">>, <<"1", "e", "-", "2">>, <<"0", "x", "1", "0">>,
   <<"0", "b", "1", "1">>, <<"+", "5", ".">>, INFINITY,
   <<" ", "5">>, <<"1", "e", "-", "4", "0", "0">>,
   <<"1", "e", "4", "0", "0">>}
LengthHeaders ==
  {<<>>} \cup {("content-length" :> v) : v \in LengthValues}
TypeHeaders ==
  {<<>>} \cup {("content-type" :> v) : v \in {IMAGE_PNG, TEXT_PLAIN}}

Responses ==
  {Response(200, a @@ b, TRUE) : a \in TypeHeaders, b \in LengthHeaders}
    \cup {Response(204, ("content-type" :> IMAGE_PNG), FALSE),
          Response(404, ("content-type" :> IMAGE_PNG) @@ ("content-length" :> <<"2">>), TRUE),
          Response(500, <<>>, TRUE),
          Response(301, ("content-type" :> IMAGE_PNG), TRUE),
          Response(200, ("content-type" :> IMAGE_PNG_UPPER), TRUE)}

\* the invocations Spec starts from
Calls ==
  {[op |-> "fileToBase64", args |-> [file |-> f, options |-> o]] :
     f \in Files, o \in OptionSets}
  \cup
  {[op |-> "base64ToFile",
    args |-> [base64String |-> s, filename |-> FileName, mimeType |-> m,
              options |-> o]] :
     s \in Texts, m \in {IMAGE_PNG, TEXT_PLAIN, IMAGE_PNG_UPPER, TEXT_PLAIN_MIXED,
                        IMAGE_TAB},
     o \in OptionSets}
  \cup
  {[op |-> "urlToFile",
    args |-> [url |-> c[1], filename |-> c[2], options |-> o,
              onProgress |-> cb]] :
     c \in UrlCalls, o \in OptionSets, cb \in BOOLEAN}
  \cup
  {[op |-> "legacyUrlToFile", args |-> [url |-> c[1], filename |-> c[2]]] :
     c \in UrlCalls}

(***************************************************************************)
(* The state machine.  A behaviour is one invocation: Init holds the call  *)
(* and its inputs, the actions are the steps the code takes.               *)
(***************************************************************************)
Start(calls) ==
  /\ pc = "called"
  /\ \E c \in calls : op = c.op /\ args = c.args
  /\ response = NoResponse
  /\ readerOpen = FALSE
  /\ chunks = <<>>
  /\ receivedLength = 0
  /\ progress = <<>>
  /\ outcome = Pending

Init == Start(Calls)

Finish(result) ==
  /\ pc' = "done"
  /\ outcome' = result

\* fileToBase64 up to new Promise(...): the two checks, then readAsDataURL
FileToBase64Start ==
  /\ pc = "called" /\ op = "fileToBase64"
  /\ LET c == FileToBase64Checks(args.file, args.options) IN
       IF c.kind = "error" THEN Finish(c)
       ELSE pc' = "reading" /\ outcome' = Pending
  /\ UNCHANGED <<op, args, response, readerOpen, chunks, receivedLength, progress>>

\* reader.onload
FileReaderLoad ==
  /\ pc = "reading" /\ op = "fileToBase64"
  /\ Finish(Returned(FileToBase64Result(args.file)))
  /\ UNCHANGED <<op, args, response, readerOpen, chunks, receivedLength, progress>>

\* reader.onerror: the ProgressEvent is interpolated into the message
FileReaderError ==
  /\ pc = "reading" /\ op = "fileToBase64"
  /\ Finish(Thrown(<<"File reading failed: ", "[object ProgressEvent]">>))
  /\ UNCHANGED <<op, args, response, readerOpen, chunks, receivedLength, progress>>

\* base64ToFile is synchronous: one step
Base64ToFileCall ==
  /\ pc = "called" /\ op = "base64ToFile"
  /\ Finish(base64ToFile(args.base64String, args.filename, args.mimeType,
                         args.options))
  /\ UNCHANGED <<op, args, response, readerOpen, chunks, receivedLength, progress>>

\* urlToFile up to await fetch(url)
UrlToFileStart ==
  /\ pc = "called" /\ op = "urlToFile"
  /\ pc' = "fetching"
  /\ UNCHANGED <<op, args, response, readerOpen, chunks, receivedLength, progress, outcome>>

\* fetch rejects (network failure): a TypeError, caught and wrapped
FetchRejects ==
  /\ pc = "fetching" /\ op = "urlToFile"
  /\ Finish(UrlCatch(<<"Failed to fetch">>, TRUE))
  /\ UNCHANGED <<op, args, response, readerOpen, chunks, receivedLength, progress>>

\* fetch resolves: status check, content type check, getReader()
FetchResolves ==
  /\ pc = "fetching" /\ op = "urlToFile"
  /\ \E r \in Responses :
       /\ response' = r
       /\ LET contentType == ContentType(r.headers)
              opts == MergeOptions(args.options)
          IN IF StatusRejected(r)
             THEN /\ Finish(UrlCatch(<<"HTTP error! status: ", ToString(r.status)>>, TRUE))
                  /\ readerOpen' = FALSE
             ELSE IF opts.validateContent
                       /\ ~isValidMimeType(contentType, opts.allowedMimeTypes)
             THEN /\ Finish(UrlCatch(<<"Unsupported content type: ", contentType>>, TRUE))
                  /\ readerOpen' = FALSE
             ELSE IF ~r.hasBody
             THEN /\ Finish(UrlCatch(<<"Cannot read properties of null (reading 'getReader')">>, TRUE))
                  /\ readerOpen' = FALSE
             ELSE /\ pc' = "streaming"
                  /\ readerOpen' = TRUE
                  /\ outcome' = Pending
  /\ UNCHANGED <<op, args, chunks, receivedLength, progress>>

\* reader.read() resolves with a chunk of n bytes (a body stream delivers
\* non-empty chunks)
ReadChunk ==
  /\ pc = "streaming"
  /\ Len(chunks) < MaxChunks
  /\ \E n \in 1..MaxChunkLen :
       LET value == [i \in 1..n |-> (receivedLength + i) % 256]
           contentLength == ContentLength(response.headers)
       IN /\ chunks' = Append(chunks, value)
          /\ receivedLength' = receivedLength + Len(value)
          /\ progress' =
               IF ReportsProgress(args.onProgress, contentLength)
               THEN Append(progress,
                           ProgressValue(receivedLength', contentLength))
               ELSE progress
  /\ UNCHANGED <<pc, op, args, response, readerOpen, outcome>>

\* reader.read() resolves with done
ReadDone ==
  /\ pc = "streaming"
  /\ LET r == UrlToFileFinish(args.url, args.filename, args.options,
                              ContentType(response.headers), chunks)
     IN Finish(IF r.kind = "error" THEN UrlCatch(r.message, TRUE) ELSE r)
  /\ UNCHANGED <<op, args, response, readerOpen, chunks, receivedLength, progress>>

\* reader.read() rejects: the stream errored, with an Error or another value
ReadRejects ==
  /\ pc = "streaming"
  /\ \E isError \in BOOLEAN : Finish(UrlCatch(<<"network error">>, isError))
  /\ UNCHANGED <<op, args, response, readerOpen, chunks, receivedLength, progress>>

\* legacy urlToFile up to await fetch(url)
LegacyUrlToFileStart ==
  /\ pc = "called" /\ op = "legacyUrlToFile"
  /\ pc' = "fetching"
  /\ UNCHANGED <<op, args, response, readerOpen, chunks, receivedLength, progress, outcome>>

\* fetch rejects: nothing catches the TypeError
LegacyFetchRejects ==
  /\ pc = "fetching" /\ op = "legacyUrlToFile"
  /\ Finish(Thrown(<<"Failed to fetch">>))
  /\ UNCHANGED <<op, args, response, readerOpen, chunks, receivedLength, progress>>

\* fetch resolves: whatever the status, response.blob() is awaited
LegacyFetchResolves ==
  /\ pc = "fetching" /\ op = "legacyUrlToFile"
  /\ \E r \in Responses : response' = r
  /\ pc' = "buffering"
  /\ UNCHANGED <<op, args, readerOpen, chunks, receivedLength, progress, outcome>>

\* response.blob() resolves with the whole body (empty for a response
\* without body), kept as the one part of the File that is returned
LegacyBlobResolves ==
  /\ pc = "buffering"
  /\ \E n \in 0..MaxChunkLen :
       /\ (~response.hasBody => n = 0)
       /\ chunks' = <<[i \in 1..n |-> i % 256]>>
       /\ Finish(LegacyUrlToFileFinish(args.url, args.filename,
                                       response.headers, chunks'))
  /\ UNCHANGED <<op, args, response, readerOpen, receivedLength, progress>>

\* response.blob() rejects: the body stream errored; nothing catches it.
\* A response without body has no stream that could error.
LegacyBlobRejects ==
  /\ pc = "buffering"
  /\ response.hasBody
  /\ Finish(Thrown(<<"network error">>))
  /\ UNCHANGED <<op, args, response, readerOpen, chunks, receivedLength, progress>>

Next ==
  \/ FileToBase64Start
  \/ FileReaderLoad
  \/ FileReaderError
  \/ Base64ToFileCall
  \/ UrlToFileStart
  \/ FetchRejects
  \/ FetchResolves
  \/ ReadChunk
  \/ ReadDone
  \/ ReadRejects
  \/ LegacyUrlToFileStart
  \/ LegacyFetchRejects
  \/ LegacyFetchResolves
  \/ LegacyBlobResolves
  \/ LegacyBlobRejects

Spec == Init /\ [][Next]_vars

(***************************************************************************)
(* The codec on its own: encode then decode, and decode of arbitrary text, *)
(* for the current and the legacy variant.                                 *)
(***************************************************************************)
ByteSamples == {0, 104, 255}

\* buffers around one and two chunks
LongBuffers ==
  {Pattern(n) : n \in {CHUNK_SIZE - 1, CHUNK_SIZE, CHUNK_SIZE + 1,
                       2 * CHUNK_SIZE, 2 * CHUNK_SIZE + 1}}

CodecFiles ==
  {[name |-> FileName, type |-> ty, bytes |-> b] :
     ty \in {IMAGE_PNG, TEXT_PLAIN},
     b \in SeqUpTo(ByteSamples, MaxBufLen) \cup LongBuffers}

TextAlphabet == {"A", ",", "="}

CodecTexts ==
  SeqUpTo(TextAlphabet, MaxTextLen)
    \cup {HELLO_B64, DataHeader(IMAGE_PNG) \o HELLO_B64, DataHeader(IMAGE_PNG),
          <<"x", ",", "A", "A", "=", "=", ",", "A", "Q", "=", "=">>}

CodecCalls ==
  {[op |-> "fileToBase64", args |-> [file |-> f, options |-> o]] :
     f \in CodecFiles, o \in {<<>>, [validateContent |-> FALSE]}}
  \cup
  {[op |-> "legacyFileToBase64", args |-> [file |-> f]] : f \in CodecFiles}
  \cup
  {[op |-> v,
    args |-> [base64String |-> s, filename |-> FileName,
              mimeType |-> IMAGE_PNG, options |-> <<>>]] :
     v \in {"base64ToFile", "legacyBase64ToFile"}, s \in CodecTexts}

CodecInit == Start(CodecCalls)

\* the caller feeds a ConversionResult back into base64ToFile
DecodeResult ==
  /\ pc = "done" /\ op = "fileToBase64" /\ outcome.kind = "ok"
  /\ op' = "roundTrip"
  /\ args' = [source |-> args.file,
              base64String |-> outcome.value.data,
              filename |-> outcome.value.filename,
              mimeType |-> outcome.value.mimeType,
              options |-> args.options]
  /\ Finish(base64ToFile(outcome.value.data, outcome.value.filename,
                         outcome.value.mimeType, args.options))
  /\ UNCHANGED <<response, readerOpen, chunks, receivedLength, progress>>

\* legacy fileToBase64: readAsDataURL at once, no checks
LegacyFileToBase64Start ==
  /\ pc = "called" /\ op = "legacyFileToBase64"
  /\ pc' = "reading"
  /\ UNCHANGED <<op, args, response, readerOpen, chunks, receivedLength, progress, outcome>>

\* legacy reader.onload: the data URL itself
LegacyFileReaderLoad ==
  /\ pc = "reading" /\ op = "legacyFileToBase64"
  /\ Finish(Returned([data |-> readAsDataURL(args.file)]))
  /\ UNCHANGED <<op, args, response, readerOpen, chunks, receivedLength, progress>>

\* legacy reader.onerror: rejects with the event itself
LegacyFileReaderError ==
  /\ pc = "reading" /\ op = "legacyFileToBase64"
  /\ Finish(Thrown(<<"[object ProgressEvent]">>))
  /\ UNCHANGED <<op, args, response, readerOpen, chunks, receivedLength, progress>>

\* the caller feeds the data URL back into the legacy base64ToFile
LegacyDecodeResult ==
  /\ pc = "done" /\ op = "legacyFileToBase64" /\ outcome.kind = "ok"
  /\ op' = "legacyRoundTrip"
  /\ args' = [source |-> args.file,
              base64String |-> outcome.value.data,
              filename |-> args.file.name,
              mimeType |-> args.file.type]
  /\ Finish(LegacyBase64ToFile(outcome.value.data, args.file.name,
                               args.file.type))
  /\ UNCHANGED <<response, readerOpen, chunks, receivedLength, progress>>

LegacyBase64ToFileCall ==
  /\ pc = "called" /\ op = "legacyBase64ToFile"
  /\ Finish(LegacyBase64ToFile(args.base64String, args.filename,
                               args.mimeType))
  /\ UNCHANGED <<op, args, response, readerOpen, chunks, receivedLength, progress>>

CodecNext ==
  \/ FileToBase64Start
  \/ FileReaderLoad
  \/ FileReaderError
  \/ DecodeResult
  \/ Base64ToFileCall
  \/ LegacyFileToBase64Start
  \/ LegacyFileReaderLoad
  \/ LegacyFileReaderError
  \/ LegacyDecodeResult
  \/ LegacyBase64ToFileCall

SpecCodec == CodecInit /\ [][CodecNext]_vars

(***************************************************************************)
(* The validator on its own.                                               *)
(***************************************************************************)
MimeAlphabet == {"a", "/"}

MimeCalls ==
  {[op |-> "isValidMimeType", args |-> [mimeType |-> m, allowedTypes |-> l]] :
     m \in SeqUpTo(MimeAlphabet, MaxMimeLen),
     l \in SeqUpTo(SeqUpTo(MimeAlphabet, MaxAllowedLen), MaxAllowed)}
  \cup
  {[op |-> "isValidMimeType", args |-> [mimeType |-> m, allowedTypes |-> l]] :
     m \in {IMAGE_PNG, IMAGE, TEXT_PLAIN, <<>>},
     l \in {<<IMAGE_JPEG>>, <<IMAGE_PNG>>, <<IMAGE_ANY>>, <<IMAGE>>,
            DEFAULT_OPTIONS.allowedMimeTypes}}

MimeInit == Start(MimeCalls)

IsValidMimeTypeCall ==
  /\ pc = "called" /\ op = "isValidMimeType"
  /\ Finish(Returned([valid |-> isValidMimeType(args.mimeType,
                                                args.allowedTypes)]))
  /\ UNCHANGED <<op, args, response, readerOpen, chunks, receivedLength, progress>>

MimeNext == IsValidMimeTypeCall

SpecMime == MimeInit /\ [][MimeNext]_vars

(***************************************************************************)
(* Properties                                                              *)
(***************************************************************************)
Ceiling(options) == MergeOptions(options).maxFileSizeMB

Done(o) == pc = "done" /\ op = o

\* the part of s before its first "/", all of s when it has none
TopLevel(s) ==
  IF FirstIndex(s, "/") = 0 THEN s ELSE SubSeq(s, 1, FirstIndex(s, "/") - 1)

\* the validity rule as the specification words it
SpecValid(m, l) ==
  \E k \in 1..Len(l) :
    \/ m = l[k]
    \/ includes(m, "/") /\ TopLevel(m) = TopLevel(l[k])

\* C1: whatever the configured ceiling (0 included), a payload larger than
\* the ceiling yields no result from fileToBase64, base64ToFile or urlToFile,
\* and fileToBase64 fails before the file read is started.
C1_OversizedNeverAccepted ==
  /\ (op = "fileToBase64" /\ Len(args.file.bytes) > Ceiling(args.options))
       => (pc # "reading" /\ outcome.kind # "ok")
  /\ (Done("base64ToFile") /\ outcome.kind = "ok")
       => Len(outcome.value.bytes) <= Ceiling(args.options)
  /\ (Done("urlToFile") /\ outcome.kind = "ok")
       => Len(outcome.value.bytes) <= Ceiling(args.options)

\* C2: isValidMimeType returns true exactly when some allowed entry equals
\* mimeType, or mimeType contains "/" and its top-level category equals the
\* top-level category of some allowed entry; without a "/" only equality
\* accepts; it always returns, and returns false for an empty allow-list.
C2_ValidIffExactOrCategory ==
  Done("isValidMimeType") =>
    /\ outcome.kind = "ok"
    /\ outcome.value.valid = SpecValid(args.mimeType, args.allowedTypes)
    /\ ~includes(args.mimeType, "/") =>
         (outcome.value.valid =
            (\E k \in 1..Len(args.allowedTypes) :
               args.mimeType = args.allowedTypes[k]))
    /\ args.allowedTypes = <<>> => ~outcome.value.valid

\* C2 witness: a type accepted through its category alone, by the second of
\* two entries
C2_Witness ==
  /\ Done("isValidMimeType")
  /\ outcome.value.valid
  /\ Len(args.allowedTypes) = 2
  /\ \A k \in 1..2 : args.mimeType # args.allowedTypes[k]
  /\ TopLevel(args.mimeType) # TopLevel(args.allowedTypes[1])

\* C3, as claimed: "image/png" is rejected by the allow-list ["image/jpeg"],
\* and accepted by ["image/png"] and by ["image/*"].
C3_Original ==
  (Done("isValidMimeType") /\ args.mimeType = IMAGE_PNG) =>
    /\ args.allowedTypes = <<IMAGE_JPEG>> => ~outcome.value.valid
    /\ args.allowedTypes = <<IMAGE_PNG>> => outcome.value.valid
    /\ args.allowedTypes = <<IMAGE_ANY>> => outcome.value.valid

\* C3, amended: "image/png" is accepted by ["image/jpeg"] (same top-level
\* category), by ["image/png"], by ["image/*"] and by ["image"]; against
\* ["image/jpeg"] a type of another category ("text/plain") and the bare
\* word "image" are rejected.
C3_AllowListBoundary ==
  Done("isValidMimeType") =>
    /\ (args.mimeType = IMAGE_PNG
          /\ args.allowedTypes \in {<<IMAGE_JPEG>>, <<IMAGE_PNG>>,
                                    <<IMAGE_ANY>>, <<IMAGE>>})
         => outcome.value.valid
    /\ (args.mimeType \in {TEXT_PLAIN, IMAGE}
          /\ args.allowedTypes = <<IMAGE_JPEG>>)
         => ~outcome.value.valid

\* C3 witness: the boundary case itself has been decided
C3_Witness ==
  /\ Done("isValidMimeType")
  /\ args.mimeType = IMAGE_PNG
  /\ args.allowedTypes = <<IMAGE_JPEG>>
  /\ outcome.value.valid

\* the content type written in a data URL's header
HeaderType(text) == SubSeq(text, 6, FirstIndex(text, ";") - 1)

\* C4: decoding the text produced by encoding (B, M) yields exactly B, and
\* the decoded file's content type is the M found in the text's header, for
\* the current and the legacy implementation.
C4_RoundTrip ==
  (pc = "done" /\ op \in {"roundTrip", "legacyRoundTrip"}) =>
    /\ outcome.kind = "ok"
    /\ outcome.value.bytes = args.source.bytes
    /\ outcome.value.type = HeaderType(args.base64String)

\* the same round trip, for the current implementation alone
RoundTripCurrent ==
  Done("roundTrip") =>
    /\ outcome.kind = "ok"
    /\ outcome.value.bytes = args.source.bytes
    /\ outcome.value.type = HeaderType(args.base64String)

\* what follows the first "," of the text, the whole text when it has none
AfterFirstComma(text) ==
  IF includes(text, ",")
  THEN SubSeq(text, FirstIndex(text, ",") + 1, Len(text))
  ELSE text

\* C5: base64ToFile decodes everything after the first "," (the whole text
\* when there is none): it returns those bytes when that remainder is
\* decodable and fails when it is not; "aGVsbG8=" yields the bytes of hello.
C5_DecodesAfterFirstComma ==
  (pc = "done" /\ op \in {"base64ToFile", "legacyBase64ToFile"}) =>
    LET payload == AfterFirstComma(args.base64String) IN
    /\ AtobOk(payload) =>
         (outcome.kind = "ok" /\ outcome.value.bytes = atob(payload))
    /\ ~AtobOk(payload) => outcome.kind = "error"
    /\ args.base64String = HELLO_B64 =>
         (outcome.kind = "ok" /\ outcome.value.bytes = HELLO)

\* a <= b for two progress values
ProgressLeq(a, b) == a.num * b.den <= b.num * a.den

\* C6: the values passed to the progress callback are non-decreasing, and
\* when the download completes successfully the last one is 100.
C6_ProgressEndsAt100 ==
  op = "urlToFile" =>
    /\ \A i \in 1..(Len(progress) - 1) :
         ProgressLeq(progress[i], progress[i + 1])
    /\ (pc = "done" /\ outcome.kind = "ok" /\ progress # <<>>) =>
         progress[Len(progress)].num = 100 * progress[Len(progress)].den

\* C7: every value passed to the progress callback lies in [0, 100], also
\* when the stream delivers more bytes than declared, and the received-byte
\* counter is the sum of the lengths of the chunks accumulated.
C7_ProgressWithinRange ==
  op = "urlToFile" =>
    /\ \A i \in 1..Len(progress) :
         /\ 0 <= progress[i].num
         /\ progress[i].num <= 100 * progress[i].den
    /\ receivedLength = Len(BlobBytes(chunks))

\* the content-length header as sent
RawLength(r) == HeadersGet(r.headers, "content-length")

\* the number the content-length header stands for
DeclaredLength(r) == ToNumber(RawLength(r))

\* no total length: header absent, or a value that is zero or not a number
DeclaresNoLength(r) ==
  \/ "content-length" \notin DOMAIN r.headers
  \/ DeclaredLength(r).nan
  \/ (~DeclaredLength(r).inf /\ DeclaredLength(r).num = 0)

\* a positive total length
DeclaresPositiveLength(r) ==
  /\ "content-length" \in DOMAIN r.headers
  /\ ~DeclaredLength(r).nan
  /\ DeclaredLength(r).num > 0

\* C8: with no declared total length the progress callback is never invoked,
\* whatever chunks arrive; with a positive declared length and a callback,
\* it is invoked exactly once after each chunk read, with the bytes received
\* so far over the declared length.
C8_ProgressOnlyWithDeclaredLength ==
  (op = "urlToFile" /\ readerOpen) =>
    /\ DeclaresNoLength(response) => progress = <<>>
    /\ (DeclaresPositiveLength(response) /\ args.onProgress) =>
         /\ Len(progress) = Len(chunks)
         /\ \A i \in 1..Len(progress) :
              IF DeclaredLength(response).inf THEN progress[i].num = 0
              ELSE progress[i].num * DeclaredLength(response).num
                     = 100 * Len(BlobBytes(SubSeq(chunks, 1, i)))
                         * DeclaredLength(response).den * progress[i].den

\* C8 witness: a download with a callback and a non-numeric content-length
\* has finished after two or more chunks without any progress call
C8_Witness ==
  /\ Done("urlToFile")
  /\ args.onProgress
  /\ RawLength(response) = <<"x">>
  /\ Len(chunks) >= 2
  /\ receivedLength > 0
  /\ outcome.kind = "ok"
  /\ progress = <<>>

\* C9: a response whose status is not 2xx makes urlToFile (either variant)
\* fail with an HTTP error carrying the status, before the reader is opened,
\* a byte of the body is read or kept, or progress is reported; and a File,
\* when one is returned, holds all the chunks read up to the end of the
\* stream, never a part of them.
C9_BadStatusFailsBeforeRead ==
  op \in {"urlToFile", "legacyUrlToFile"} =>
    /\ (pc \in {"streaming", "buffering", "done"} /\ response # NoResponse
          /\ ~(response.status >= 200 /\ response.status <= 299)) =>
         /\ pc = "done"
         /\ outcome.kind = "error"
         /\ Len(outcome.message) = 3
         /\ outcome.message[1] = "URL conversion failed: "
         /\ outcome.message[2] = "HTTP error! status: "
         /\ outcome.message[3] = ToString(response.status)
         /\ ~readerOpen
         /\ chunks = <<>>
         /\ receivedLength = 0
         /\ progress = <<>>
    /\ outcome.kind = "ok" =>
         (pc = "done" /\ outcome.value.bytes = BlobBytes(chunks))
    /\ outcome.kind = "error" => outcome.value = NoValue

\* the texts with which an operation's failure messages are meant to begin
OperationPrefixes(o) ==
  CASE o = "fileToBase64" -> {"File reading failed: "}
    [] o = "base64ToFile" ->
         {"Base64 conversion failed: ",
          "Base64 conversion failed with unknown error"}
    [] o = "urlToFile" ->
         {"URL conversion failed: ", "URL conversion failed with unknown error"}

\* C10: every failure of fileToBase64, base64ToFile and urlToFile carries a
\* message that begins with the prefix of the operation that failed.
C10_EveryFailurePrefixed ==
  (pc = "done" /\ outcome.kind = "error"
     /\ op \in {"fileToBase64", "base64ToFile", "urlToFile"}) =>
    outcome.message[1] \in OperationPrefixes(op)

====
